---- MODULE Spec2Model ----
(***************************************************************************)
(* Minimum Sum Coloring: the graph generator (src/src/graph_generation.py), *)
(* the greedy constructor (src/src/greedy_msc.py) and the tabu search      *)
(* engine (src/src/tabu_search_msc.py) as one state machine.               *)
(*                                                                         *)
(* A run builds a graph (generate_erdos_renyi_graph, or the Graph          *)
(* constructor called directly), colors it greedily, and then improves a   *)
(* feasible coloring with tabu_search_msc.  Python dicts are functions;    *)
(* dict objects live in `heap` so that a copy and an alias differ.         *)
(***************************************************************************)
EXTENDS Integers, Sequences, FiniteSets, TLC

\* ------------------------------------------------------------------ bounds
\* Largest vertex count handed to generate_erdos_renyi_graph.
MaxN == 3
\* Largest color of a caller-supplied initial coloring.
MaxInitColor == 3
\* Largest max_iterations / tabu_tenure / max_no_improve of the small configurations.
MaxIterations == 5
MaxTenure == 2
MaxNoImprove == 3
\* Largest count handed to generate_random_graphs.
MaxCount == 2

\* --------------------------------------------------------------- variables
VARIABLES
    pc,            \* position of the run
    call,          \* the generator called, until its result is consumed
    arg_count,     \* generate_random_graphs: count
    arg_n, arg_p,  \* the generators' n and p (p in tenths)
    returned,      \* observer: how many graphs the generator returned
    n, adj,        \* Graph.n, Graph.adj
    vertices,      \* greedy_msc: the sorted vertex list
    gi,            \* greedy_msc: 1-based position of the for loop in vertices
    coloring,      \* greedy_msc: the coloring under construction
    total_sum,     \* greedy_msc: the returned sum
    assigned,      \* observer: the vertices greedy_msc has written, in order
    heap,          \* the dict objects of tabu_search_msc, by object id
    initial_coloring, current_coloring, best_coloring,   \* object ids
    config,        \* TabuSearchConfig
    current_value, best_value,
    tabu,          \* (vertex, color) -> iteration until which the move is tabu
    max_color,
    iterations_without_improve,
    iteration,
    moves,         \* observer: the move applied at each iteration
    graph0,        \* observer: the graph as the caller built it
    initial0       \* observer: the caller's coloring as it was at the call

callVars   == <<call, arg_count, arg_n, arg_p, returned>>
graphVars  == <<n, adj, graph0>>
greedyVars == <<vertices, gi, coloring, total_sum, assigned>>
tabuVars   == <<heap, initial_coloring, current_coloring, best_coloring, config,
                current_value, best_value, tabu, max_color,
                iterations_without_improve, iteration, moves, initial0>>
vars == <<pc, callVars, graphVars, greedyVars, tabuVars>>

\* ------------------------------------------------------------ dict helpers
\* An empty Python dict.
EmptyDict == [x \in {} |-> 0]

\* range(k) as a set.
Range(k) == 0 .. (k - 1)

RECURSIVE SumOver(_, _)
SumOver(f, S) ==
    IF S = {} THEN 0
    ELSE LET x == CHOOSE y \in S : TRUE IN f[x] + SumOver(f, S \ {x})

\* sum(coloring.values())
_objective(c) == SumOver(c, DOMAIN c)

RECURSIVE MaxOver(_, _)
MaxOver(f, S) ==
    IF S = {} THEN 0
    ELSE LET x == CHOOSE y \in S : TRUE
             m == MaxOver(f, S \ {x})
         IN IF f[x] > m THEN f[x] ELSE m

\* ------------------------------------------------------------------- graph
\* Graph.neighbors: self.adj.get(v, set())
neighbors(v) == IF v \in DOMAIN adj THEN adj[v] ELSE {}

\* The unordered pairs u < v the generator draws an edge for.
Pairs(k) == {e \in Range(k) \X Range(k) : e[1] < e[2]}

\* The adjacency dict built from a set of drawn pairs.
AdjOf(k, E) ==
    [v \in Range(k) |-> {u \in Range(k) : <<u, v>> \in E \/ <<v, u>> \in E}]

\* The edge probabilities tried, in tenths: below 0, 0, inside, 1, above 1.
PValues == {0 - 1, 0, 5, 10, 11}
NValues == (0 - 1) .. MaxN

\* The check at the head of generate_erdos_renyi_graph.
ValidP(p) == 0 <= p /\ p <= 10

\* rng.random() lies in [0, 1): with p = 0 no pair passes `random() < p`, with
\* p = 1 every pair does, otherwise any subset of the pairs can be drawn.
Drawable(k, p) ==
    {E \in SUBSET Pairs(k) : (p <= 0 => E = {}) /\ (p >= 10 => E = Pairs(k))}

\* Graphs a caller builds with the Graph constructor: the path 0-1-2-3 and the
\* star with centre 0, leaves 1 and 2, and the isolated vertex 3.
PathGraph == [n |-> 4, adj |-> AdjOf(4, {<<0, 1>>, <<1, 2>>, <<2, 3>>})]
StarGraph == [n |-> 4, adj |-> AdjOf(4, {<<0, 1>>, <<0, 2>>})]
BuiltGraphs == {PathGraph, StarGraph}

Init ==
    /\ pc = "start"
    /\ call = "none" /\ arg_count = 0 /\ arg_n = 0 /\ arg_p = 0 /\ returned = 0
    /\ n = 0 /\ adj = EmptyDict
    /\ graph0 = [n |-> 0, adj |-> EmptyDict]
    /\ vertices = <<>> /\ gi = 0 /\ coloring = EmptyDict /\ total_sum = 0
    /\ assigned = <<>>
    /\ heap = EmptyDict
    /\ initial_coloring = 0 /\ current_coloring = 0 /\ best_coloring = 0
    /\ config = [max_iterations |-> 0, tabu_tenure |-> 0, max_no_improve |-> 0]
    /\ current_value = 0 /\ best_value = 0
    /\ tabu = EmptyDict
    /\ max_color = 0
    /\ iterations_without_improve = 0
    /\ iteration = 0
    /\ moves = <<>>
    /\ initial0 = EmptyDict

\* generate_erdos_renyi_graph(n, p): raises ValueError when p is outside [0, 1],
\* otherwise returns Graph(n, adj) with adj keyed by range(n).
GenerateErdosRenyi ==
    /\ pc = "start"
    /\ call' = "generate_erdos_renyi_graph"
    /\ arg_count' = 1
    /\ \E nn \in NValues, pp \in PValues :
        /\ arg_n' = nn
        /\ arg_p' = pp
        /\ IF ~ValidP(pp)
           THEN /\ pc' = "raised"
                /\ returned' = 0
                /\ UNCHANGED <<n, adj, graph0>>
           ELSE \E E \in Drawable(nn, pp) :
                /\ n' = nn
                /\ adj' = AdjOf(nn, E)
                /\ graph0' = [n |-> nn, adj |-> AdjOf(nn, E)]
                /\ returned' = 1
                /\ pc' = "graph"
    /\ UNCHANGED <<greedyVars, tabuVars>>

\* generate_random_graphs(count, n, p): one generate_erdos_renyi_graph call per
\* seed.  With count <= 0 no call is made and the list is empty; otherwise the
\* first call raises or every call returns.  The run goes on with any one graph
\* of the list, as run_experiment's loop does.
GenerateRandomGraphs ==
    /\ pc = "start"
    /\ call' = "generate_random_graphs"
    /\ \E count \in 0 .. MaxCount, nn \in NValues, pp \in PValues :
        /\ arg_count' = count
        /\ arg_n' = nn
        /\ arg_p' = pp
        /\ IF count = 0
           THEN /\ pc' = "empty_batch"
                /\ returned' = 0
                /\ UNCHANGED <<n, adj, graph0>>
           ELSE IF ~ValidP(pp)
           THEN /\ pc' = "raised"
                /\ returned' = 0
                /\ UNCHANGED <<n, adj, graph0>>
           ELSE \E E \in Drawable(nn, pp) :
                /\ n' = nn
                /\ adj' = AdjOf(nn, E)
                /\ graph0' = [n |-> nn, adj |-> AdjOf(nn, E)]
                /\ returned' = count
                /\ pc' = "graph"
    /\ UNCHANGED <<greedyVars, tabuVars>>

\* Graph(n=..., adj=...): the dataclass constructor, called by a caller directly.
BuildGraph ==
    /\ pc = "start"
    /\ call' = "Graph"
    /\ \E g \in BuiltGraphs :
        /\ n' = g.n
        /\ adj' = g.adj
        /\ graph0' = g
    /\ pc' = "graph"
    /\ UNCHANGED <<arg_count, arg_n, arg_p, returned, greedyVars, tabuVars>>

\* ------------------------------------------------------------------ greedy
\* A sort by ascending degree: the key without its minus sign.
KeyLessAscending(a, b) ==
    LET da == Cardinality(neighbors(a))
        db == Cardinality(neighbors(b))
    IN da < db \/ (da = db /\ a < b)

\* The sort key (-len(graph.neighbors(v)), v), compared as Python compares tuples.
KeyLess(a, b) ==
    LET da == 0 - Cardinality(neighbors(a))
        db == 0 - Cardinality(neighbors(b))
    IN da < db \/ (da = db /\ a < b)

\* list.sort(key=...): a stable insertion of each element of range(n) in turn.
RECURSIVE InsertSorted(_, _)
InsertSorted(s, v) ==
    IF s = <<>> THEN <<v>>
    ELSE IF KeyLess(v, Head(s)) THEN <<v>> \o s
    ELSE <<Head(s)>> \o InsertSorted(Tail(s), v)

RECURSIVE SortedRange(_)
SortedRange(k) ==
    IF k <= 0 THEN <<>> ELSE InsertSorted(SortedRange(k - 1), k - 1)

\* {coloring[u] for u in graph.neighbors(v) if u in coloring}
forbidden_colors(v) == {coloring[u] : u \in (neighbors(v) \cap DOMAIN coloring)}

\* color = 1; while color in forbidden_colors: color += 1
RECURSIVE FirstFree(_, _)
FirstFree(color, forbidden) ==
    IF color \in forbidden THEN FirstFree(color + 1, forbidden) ELSE color

DictSet(d, k, x) == [y \in DOMAIN d \cup {k} |-> IF y = k THEN x ELSE d[y]]

\* greedy_msc, lines 29-32: the sorted vertex list and the empty coloring.
GreedySort ==
    /\ pc = "graph"
    /\ vertices' = SortedRange(n)
    /\ coloring' = EmptyDict
    /\ gi' = 1
    /\ assigned' = <<>>
    /\ pc' = "greedy_loop"
    \* the generator's frame is gone once its graph is in use
    /\ call' = "none" /\ arg_count' = 0 /\ arg_n' = 0 /\ arg_p' = 0 /\ returned' = 0
    /\ UNCHANGED <<total_sum, graphVars, tabuVars>>

\* greedy_msc, lines 34-39: one pass of the for loop.
GreedyColor ==
    /\ pc = "greedy_loop"
    /\ gi <= Len(vertices)
    /\ LET v == vertices[gi]
           color == FirstFree(1, forbidden_colors(v))
       IN /\ coloring' = DictSet(coloring, v, color)
          /\ assigned' = Append(assigned, v)
    /\ gi' = gi + 1
    /\ UNCHANGED <<pc, vertices, total_sum, callVars, graphVars, tabuVars>>

\* greedy_msc, lines 41-42: the sum and the return.
GreedyReturn ==
    /\ pc = "greedy_loop"
    /\ gi > Len(vertices)
    /\ total_sum' = _objective(coloring)
    /\ pc' = "greedy_done"
    /\ UNCHANGED <<vertices, gi, coloring, assigned, callVars, graphVars, tabuVars>>

\* -------------------------------------------------------------------- tabu
\* TabuSearchConfig(): the defaults.
DefaultMaxIterations == 500
DefaultTabuTenure == 7
DefaultMaxNoImprove == 100
DefaultConfig ==
    [max_iterations |-> DefaultMaxIterations,
     tabu_tenure |-> DefaultTabuTenure,
     max_no_improve |-> DefaultMaxNoImprove]

\* The configurations a caller passes.  RunConfigs let the loop run: the
\* iteration cap with a tenure below, at and above zero and a stagnation cap of
\* one or more.  IdleConfigs hold a cap that is zero or negative.
TenureValues == {0 - 1, 0, 1, MaxTenure}
RunConfigs ==
    [max_iterations : {MaxIterations}, tabu_tenure : TenureValues,
     max_no_improve : {1, MaxNoImprove}]
IdleConfigs ==
    [max_iterations : {0 - 1, 0}, tabu_tenure : {MaxTenure},
     max_no_improve : {MaxNoImprove}]
    \cup [max_iterations : {MaxIterations}, tabu_tenure : {MaxTenure},
          max_no_improve : {0 - 1, 0}]

\* A coloring is feasible when no edge joins two vertices of one color.
Proper(c) == \A v \in DOMAIN c : \A u \in neighbors(v) : c[u] # c[v]

\* The feasible colorings a caller passes: the greedy one, and every feasible
\* coloring of range(n) with colors up to MaxInitColor.
InitialColorings ==
    {coloring} \cup {c \in [Range(n) -> 1 .. MaxInitColor] : Proper(c)}

\* The calls of tabu_search_msc: any feasible coloring with any small
\* configuration; the greedy coloring with the defaults, as run_experiment
\* calls it; and, on a graph the caller built, any feasible coloring with the
\* defaults.
SmallCalls == InitialColorings \X (RunConfigs \cup IdleConfigs)
Calls ==
    SmallCalls
    \cup ({coloring} \X {DefaultConfig})
    \cup (IF graph0 \in BuiltGraphs THEN InitialColorings \X {DefaultConfig} ELSE {})

\* The smallest object id not in use.
NewId(h) == CHOOSE i \in 1 .. (Cardinality(DOMAIN h) + 1) : i \notin DOMAIN h

\* An assignment without dict(): a second name for the same object.
DictAlias(h, r) == [heap |-> h, ref |-> r]

\* dict(d): a new object holding the entries of object r.
DictCopy(h, r) ==
    LET i == NewId(h)
    IN [heap |-> [j \in DOMAIN h \cup {i} |-> IF j = i THEN h[r] ELSE h[j]],
        ref |-> i]

\* Objects no name refers to any more are dropped.
Collect(h, refs) == [j \in DOMAIN h \cap refs |-> h[j]]

\* tabu.get(move, -1)
TabuGet(move) == IF move \in DOMAIN tabu THEN tabu[move] ELSE 0 - 1

\* The tenure test one iteration short: iteration < tabu_until.
is_tabu_short(move, it) == it < TabuGet(move)

\* is_tabu = iteration <= tabu_until
is_tabu(move, it) == it <= TabuGet(move)

\* A move test that never looks at the neighbours.
AdmissibleUnchecked(cur, v, new_color) == TRUE

\* not any(current_coloring[u] == new_color for u in graph.neighbors(v))
Admissible(cur, v, new_color) == \A u \in neighbors(v) : cur[u] # new_color

\* The increment with its two colors swapped.
NewValueSwapped(value, current_color, new_color) == value - new_color + current_color

\* new_value = current_value - current_color + new_color
NewValue(value, current_color, new_color) == value - current_color + new_color

\* Aspiration that also lets a tabu move through when it only equals the best.
SkippedLoose(move, new_value, it) == is_tabu(move, it) /\ new_value > best_value

\* if is_tabu and new_value >= best_value: continue
Skipped(move, new_value, it) == is_tabu(move, it) /\ new_value >= best_value

\* The comparison that also replaces the best move on a tie.
BetterOrEqual(bm, new_value) == bm = <<>> \/ new_value <= bm[3]

\* if best_move is None or new_value < best_move_value
Better(bm, new_value) == bm = <<>> \/ new_value < bm[3]

\* The body of the inner loop, lines 69-87, for one new_color; bm is the
\* best move so far, <<>> (None) or <<vertex, color, value>>.
Visit(v, new_color, bm, it) ==
    LET cur == heap[current_coloring]
        current_color == cur[v]
        new_value == NewValue(current_value, current_color, new_color)
        move == <<v, new_color>>
    IN IF new_color = current_color THEN bm
       ELSE IF ~Admissible(cur, v, new_color) THEN bm
       ELSE IF Skipped(move, new_value, it) THEN bm
       ELSE IF Better(bm, new_value) THEN <<v, new_color, new_value>>
       ELSE bm

\* The inner loop, line 68, from new_color up to max_color + 1.  (The set
\* of one element hands each pass the value the pass before it left.)
RECURSIVE ScanColors(_, _, _, _)
ScanColors(v, new_color, bm, it) ==
    IF new_color > max_color + 1 THEN bm
    ELSE CHOOSE r \in {ScanColors(v, new_color + 1, b, it) :
                          b \in {Visit(v, new_color, bm, it)}} : TRUE

\* The outer loop, line 64, from vertex v up to n - 1.
RECURSIVE ScanVertices(_, _, _)
ScanVertices(v, bm, it) ==
    IF v >= n THEN bm
    ELSE CHOOSE r \in {ScanVertices(v + 1, b, it) :
                          b \in {ScanColors(v, 1, bm, it)}} : TRUE

\* The move the iteration numbered `it` settles on, or <<>>.
best_move(it) == ScanVertices(0, <<>>, it)

\* The while condition with the iteration cap off by one.
LoopCondOffByOne ==
    /\ iteration <= config.max_iterations
    /\ iterations_without_improve < config.max_no_improve

\* The while condition, line 58.
LoopCond ==
    /\ iteration < config.max_iterations
    /\ iterations_without_improve < config.max_no_improve

\* The incumbent test reversed.
ImprovesReversed(value) == value > best_value

\* The incumbent test that never fires.
ImprovesNever(value) == FALSE

\* if current_value < best_value
Improves(value) == value < best_value

\* The record keyed by the color the vertex moved to, not the one it left.
TabuRecordNew(v, old_color, new_color, it) ==
    DictSet(tabu, <<v, new_color>>, it + config.tabu_tenure)

\* tabu[(v, old_color)] = iteration + config.tabu_tenure
TabuRecord(v, old_color, new_color, it) ==
    DictSet(tabu, <<v, old_color>>, it + config.tabu_tenure)

\* tabu_search_msc, lines 42-56: the copies and the counters.
TabuInitOf(calls) ==
    /\ pc = "greedy_done"
    /\ \E c \in calls :
        LET init == c[1]
            cfg == c[2]
            h1 == (1 :> init)
            c1 == DictCopy(h1, 1)
            c2 == DictCopy(c1.heap, c1.ref)
        IN /\ heap' = c2.heap
           /\ initial_coloring' = 1
           /\ current_coloring' = c1.ref
           /\ best_coloring' = c2.ref
           /\ config' = cfg
           /\ current_value' = _objective(h1[1])
           /\ best_value' = _objective(h1[1])
           /\ max_color' = MaxOver(h1[1], DOMAIN h1[1])
           /\ initial0' = init
    /\ tabu' = EmptyDict
    /\ iterations_without_improve' = 0
    /\ iteration' = 0
    /\ moves' = <<>>
    /\ pc' = "tabu_loop"
    /\ UNCHANGED <<callVars, graphVars, greedyVars>>

TabuInit == TabuInitOf(Calls)

\* A call with a small configuration: of the greedy coloring, as run_experiment
\* passes it on, or of any feasible coloring on a graph the caller built.
PipelineCalls == {c \in SmallCalls : c[1] = coloring \/ graph0 \in BuiltGraphs}
TabuInitSmall == TabuInitOf(PipelineCalls)

\* tabu_search_msc, lines 58-110: one pass of the while loop.
TabuIterate ==
    /\ pc = "tabu_loop"
    /\ LoopCond
    /\ iteration' = iteration + 1
    /\ \E it \in {iteration + 1} : \E bm \in {best_move(it)} :
          IF bm = <<>>
          THEN \* break
               /\ pc' = "tabu_exit"
               /\ UNCHANGED <<heap, best_coloring, current_value,
                              best_value, tabu, max_color,
                              iterations_without_improve, moves>>
          ELSE LET v == bm[1]
                   new_color == bm[2]
                   old_color == heap[current_coloring][v]
                   h1 == [heap EXCEPT ![current_coloring] =
                              DictSet(heap[current_coloring], v, new_color)]
                   cp == DictCopy(h1, current_coloring)
               IN /\ current_value' = bm[3]
                  /\ max_color' = IF new_color > max_color THEN new_color ELSE max_color
                  /\ tabu' = TabuRecord(v, old_color, new_color, it)
                  /\ moves' = Append(moves,
                        [v |-> v, old |-> old_color, new |-> new_color,
                         value |-> bm[3], best_before |-> best_value,
                         was_tabu |-> is_tabu(<<v, new_color>>, it)])
                  /\ IF Improves(bm[3])
                     THEN /\ best_value' = bm[3]
                          /\ best_coloring' = cp.ref
                          /\ heap' = Collect(cp.heap,
                                 {initial_coloring, current_coloring, cp.ref})
                          /\ iterations_without_improve' = 0
                     ELSE /\ heap' = h1
                          /\ iterations_without_improve' = iterations_without_improve + 1
                          /\ UNCHANGED <<best_value, best_coloring>>
                  /\ pc' = "tabu_loop"
    /\ UNCHANGED <<initial_coloring, current_coloring, config, initial0,
                   callVars, graphVars, greedyVars>>

\* tabu_search_msc, line 112: return best_coloring, best_value.
TabuReturn ==
    /\ \/ pc = "tabu_loop" /\ ~LoopCond
       \/ pc = "tabu_exit"
    /\ pc' = "done"
    /\ UNCHANGED <<callVars, graphVars, greedyVars, tabuVars>>

Next ==
    \/ GenerateErdosRenyi
    \/ GenerateRandomGraphs
    \/ BuildGraph
    \/ GreedySort
    \/ GreedyColor
    \/ GreedyReturn
    \/ TabuInit
    \/ TabuIterate
    \/ TabuReturn

Spec == Init /\ [][Next]_vars

\* The runs whose calls of tabu_search_msc are PipelineCalls.
FairNext ==
    \/ GenerateErdosRenyi
    \/ GenerateRandomGraphs
    \/ BuildGraph
    \/ GreedySort
    \/ GreedyColor
    \/ GreedyReturn
    \/ TabuInitSmall
    \/ TabuIterate
    \/ TabuReturn

\* The scheduling of a single-threaded call: a step that can be taken is taken.
FairSpec == Init /\ [][FairNext]_vars /\ WF_vars(FairNext)

\* ------------------------------------------------------------------ claims
GreedyPcs == {"greedy_loop", "greedy_done", "tabu_loop", "tabu_exit", "done"}
GreedyDonePcs == {"greedy_done", "tabu_loop", "tabu_exit", "done"}
TabuPcs == {"tabu_loop", "tabu_exit", "done"}

HasEdge == \E v \in DOMAIN adj : adj[v] # {}

\* C1 (feasibility): the coloring greedy_msc builds and returns has no edge
\* joining two vertices of one color, and, the initial coloring being feasible,
\* the working coloring of tabu_search_msc after every iteration and the
\* coloring it returns have none either.
C1_Feasibility ==
    /\ pc \in GreedyPcs =>
        \A v \in DOMAIN coloring : \A u \in adj[v] :
            u \in DOMAIN coloring => coloring[u] # coloring[v]
    /\ pc \in TabuPcs =>
        /\ \A v \in Range(n) : \A u \in adj[v] :
              heap[current_coloring][u] # heap[current_coloring][v]
        /\ \A v \in Range(n) : \A u \in adj[v] :
              heap[best_coloring][u] # heap[best_coloring][v]

\* A search on a graph with edges has returned a coloring other than the one it
\* was given, after several moves.
C1_Witness ==
    /\ pc = "done"
    /\ HasEdge
    /\ Len(moves) >= 2
    /\ heap[best_coloring] # initial0

\* C2 (non-regression): the value tabu_search_msc returns is at most the sum of
\* the colors of the initial coloring.
C2_NonRegression ==
    pc = "done" => best_value <= SumOver(initial0, DOMAIN initial0)

\* A search that took a worsening move has returned.
C2_Witness ==
    /\ pc = "done"
    /\ \E j \in 1 .. Len(moves) : moves[j].new > moves[j].old
    /\ current_value > best_value

\* C3 (objective consistency): after every iteration current_value is the sum
\* of the working coloring and best_value is the sum of best_coloring, so the
\* value returned is the sum of the coloring returned.
C3_ObjectiveConsistency ==
    pc \in TabuPcs =>
        /\ current_value =
              SumOver(heap[current_coloring], DOMAIN heap[current_coloring])
        /\ best_value = SumOver(heap[best_coloring], DOMAIN heap[best_coloring])

\* The search found a new incumbent and then moved the working coloring on.
C3_Witness ==
    /\ pc = "done"
    /\ best_value < SumOver(initial0, DOMAIN initial0)
    /\ heap[current_coloring] # heap[best_coloring]

Degree(v) == Cardinality(adj[v])

\* The colors held by the neighbours of vertices[i] that come before it.
EarlierColors(i) ==
    {coloring[vertices[k]] : k \in {k \in 1 .. (i - 1) : vertices[k] \in adj[vertices[i]]}}

\* C4 (greedy construction): greedy_msc takes the vertices 0..n-1 by
\* non-increasing degree, ties by ascending id (1,2,0,3 on the path 0-1-2-3),
\* gives each the smallest positive color no earlier neighbour holds, writes
\* every vertex exactly once and returns the sum of the colors.
C4_GreedyConstruction ==
    pc \in GreedyDonePcs =>
        /\ Len(vertices) = Cardinality(Range(n))
        /\ {vertices[i] : i \in 1 .. Len(vertices)} = Range(n)
        /\ \A i, j \in 1 .. Len(vertices) :
              i < j =>
                \/ Degree(vertices[i]) > Degree(vertices[j])
                \/ /\ Degree(vertices[i]) = Degree(vertices[j])
                   /\ vertices[i] < vertices[j]
        /\ graph0 = PathGraph => vertices = <<1, 2, 0, 3>>
        /\ DOMAIN coloring = Range(n)
        /\ \A i \in 1 .. Len(vertices) :
              /\ coloring[vertices[i]] >= 1
              /\ coloring[vertices[i]] \notin EarlierColors(i)
              /\ \A c \in 1 .. (coloring[vertices[i]] - 1) : c \in EarlierColors(i)
        /\ assigned = vertices
        /\ total_sum = SumOver(coloring, DOMAIN coloring)

\* greedy_msc has returned on the path 0-1-2-3.
C4_Witness ==
    /\ pc = "greedy_done"
    /\ graph0 = PathGraph
    /\ total_sum = 6

\* The tabu record forbids move m at iteration it.
TabuAt(m, it) == m \in DOMAIN tabu /\ it <= tabu[m]

\* moves[j] undoes moves[i]: it puts the vertex back on the color moves[i] took
\* it off.
Undoes(j, i) == moves[j].v = moves[i].v /\ moves[j].new = moves[i].old

Candidates ==
    {m \in Range(n) \X (1 .. (max_color + 1)) :
        /\ m[2] # heap[current_coloring][m[1]]
        /\ \A u \in adj[m[1]] : heap[current_coloring][u] # m[2]}

ValueOf(m) == current_value - heap[current_coloring][m[1]] + m[2]

\* An iteration was run and applied a move.
Moved == pc = "tabu_loop" /\ pc' = "tabu_loop" /\ iteration' = iteration + 1

\* C6 (aspiration): an iteration applies a move that is tabu at that iteration
\* only if its value is strictly below the best value so far, and a tabu move
\* strictly below the best value competes like any other: the move applied is
\* never worse than it.
C6_Aspiration ==
    [][Moved =>
        LET mv == moves'[Len(moves')]
        IN /\ <<mv.v, mv.new>> \in Candidates
           /\ mv.value = ValueOf(<<mv.v, mv.new>>)
           /\ TabuAt(<<mv.v, mv.new>>, iteration') => mv.value < best_value
           /\ \A m \in Candidates :
                 (TabuAt(m, iteration') /\ ValueOf(m) < best_value)
                     => mv.value <= ValueOf(m)
      ]_vars

\* A tabu move was applied by aspiration, and within a tenure a vertex went on
\* to a higher color rather than back to the one it had left.
C6_Witness ==
    /\ pc \in TabuPcs
    /\ \E j \in 1 .. Len(moves) : moves[j].was_tabu
    /\ \E i, j \in 1 .. Len(moves) :
          /\ i < j /\ j <= i + config.tabu_tenure
          /\ moves[i].v = moves[j].v
          /\ moves[j].new > moves[i].old
          /\ moves[j].old = moves[i].new

Cap(x) == IF x > 0 THEN x ELSE 0

\* C7 (termination): tabu_search_msc returns; it runs at most max_iterations
\* iterations, none when max_iterations <= 0 or max_no_improve <= 0 (it then
\* returns the initial coloring and its sum); it starts no iteration once
\* iterations_without_improve has reached max_no_improve, so no max_no_improve + 1
\* iterations in a row go without a new incumbent.
C7_Termination ==
    /\ (pc = "tabu_loop") ~> (pc = "done")
    /\ [](pc \in TabuPcs =>
            /\ iteration <= Cap(config.max_iterations)
            /\ iterations_without_improve <= Cap(config.max_no_improve)
            /\ Len(moves) <= iteration
            /\ Len(moves) > Cap(config.max_no_improve) =>
                  \E k \in (Len(moves) - Cap(config.max_no_improve)) .. Len(moves) :
                      moves[k].value < moves[k].best_before
            /\ (pc = "done" /\ (config.max_iterations <= 0 \/ config.max_no_improve <= 0)) =>
                  /\ iteration = 0
                  /\ heap[best_coloring] = initial0
                  /\ best_value = SumOver(initial0, DOMAIN initial0))
    /\ [][iteration' # iteration =>
            \/ pc = "greedy_done"
            \/ /\ iteration' = iteration + 1
               /\ iteration < config.max_iterations
               /\ iterations_without_improve < config.max_no_improve]_vars

\* The search returned because the stagnation cap was reached before the
\* iteration cap.
C7_Witness ==
    /\ pc = "done"
    /\ iteration > 0
    /\ iteration < config.max_iterations
    /\ iterations_without_improve = config.max_no_improve

PathColorings ==
    {[v \in Range(4) |-> IF v \in {0, 2} THEN 1 ELSE 2],
     [v \in Range(4) |-> IF v \in {0, 2} THEN 2 ELSE 1]}

PathRunDone == pc = "done" /\ graph0 = PathGraph /\ config = DefaultConfig

\* C8 as stated: on the path 0-1-2-3 with the default configuration the search
\* returns the objective 4 with colors 1,2,1,2.
C8_PathReturnsFour ==
    PathRunDone => best_value = 4 /\ heap[best_coloring] \in PathColorings

\* C8 (path scenario, amended): on the path 0-1-2-3 with the default
\* configuration the search returns, from any feasible coloring, the optimal
\* objective 6 with the colors 1,2,1,2 or 2,1,2,1 along the path.
C8_PathReturnsSix ==
    PathRunDone => best_value = 6 /\ heap[best_coloring] \in PathColorings

\* The search has returned on the path from a coloring that was not optimal.
C8_Witness ==
    /\ PathRunDone
    /\ SumOver(initial0, DOMAIN initial0) > 6

\* C9 (invalid parameters): a generator call ends with the error and returns no
\* graph exactly when p is outside [0, 1] or n is negative.
C9_InvalidParameter ==
    (pc \in {"raised", "graph", "empty_batch"}
        /\ call \in {"generate_erdos_renyi_graph", "generate_random_graphs"})
    => ((arg_p < 0 \/ arg_p > 10 \/ arg_n < 0) <=> (pc = "raised" /\ returned = 0))

\* C10 (inputs unchanged): during and after tabu_search_msc the caller's
\* initial coloring is what it was at the call, it is never the object the
\* search works on, and during and after both heuristics the graph's n and
\* adjacency are what the caller built.
C10_InputsUnchanged ==
    /\ pc \in GreedyPcs => (n = graph0.n /\ adj = graph0.adj)
    /\ pc \in TabuPcs =>
          /\ heap[initial_coloring] = initial0
          /\ initial_coloring # current_coloring
          /\ initial_coloring # best_coloring

\* The search has returned after moving its working coloring away from the
\* initial one and replacing the incumbent.
C10_Witness ==
    /\ pc = "done"
    /\ heap[current_coloring] # initial0
    /\ heap[best_coloring] # initial0
    /\ Len(moves) >= 2

\* The candidate moves an iteration may select: not tabu at the coming
\* iteration, or tabu and strictly below the best value.
Selectable ==
    {m \in Candidates : ~TabuAt(m, iteration + 1) \/ ValueOf(m) < best_value}

\* Move m comes no later than move k in the order lowest value, then lowest
\* vertex id, then lowest color.
Precedes(m, k) ==
    \/ ValueOf(m) < ValueOf(k)
    \/ /\ ValueOf(m) = ValueOf(k)
       /\ \/ m[1] < k[1]
          \/ m[1] = k[1] /\ m[2] <= k[2]

\* An iteration was run.
Iterated == pc = "tabu_loop" /\ iteration' = iteration + 1

\* C11 (move selection): an iteration that has a selectable move applies one;
\* the move applied is selectable, no selectable move has a lower value, among
\* those of equal value it has the lowest vertex id and then the lowest color,
\* and it is written to the working coloring and to current_value whether or
\* not it lowers current_value.
C11_MoveSelection ==
    [][Iterated =>
        /\ Selectable # {} => pc' = "tabu_loop"
        /\ pc' = "tabu_loop" =>
              LET mv == moves'[Len(moves')]
                  m0 == <<mv.v, mv.new>>
              IN /\ Len(moves') = Len(moves) + 1
                 /\ m0 \in Selectable
                 /\ \A m \in Selectable : Precedes(m0, m)
                 /\ mv.old = heap[current_coloring][mv.v]
                 /\ heap'[current_coloring'] =
                       [heap[current_coloring] EXCEPT ![mv.v] = mv.new]
                 /\ current_value' = ValueOf(m0)
      ]_vars

\* The moves feasible on the initial coloring, where no move is tabu yet.
FirstCandidates ==
    {m \in Range(n) \X (1 .. (MaxOver(initial0, DOMAIN initial0) + 1)) :
        /\ m[2] # initial0[m[1]]
        /\ \A u \in adj[m[1]] : initial0[u] # m[2]}

\* The first iteration settled a tie between the moves of two vertices, and an
\* iteration applied a move that raised current_value.
C11_Witness ==
    /\ pc \in TabuPcs
    /\ Len(moves) >= 2
    /\ \E m \in FirstCandidates :
          /\ m[1] > moves[1].v
          /\ SumOver(initial0, DOMAIN initial0) - initial0[m[1]] + m[2] = moves[1].value
    /\ \E j \in 1 .. Len(moves) : moves[j].new > moves[j].old

\* The highest color a vertex of the working coloring holds, 0 when it has no
\* vertex.
HighestInUse ==
    LET cur == heap[current_coloring]
    IN IF DOMAIN cur = {} THEN 0
       ELSE CHOOSE c \in {cur[v] : v \in DOMAIN cur} : \A v \in DOMAIN cur : cur[v] <= c

\* C12 (maxColor tracks the colors in use): at the start of every iteration
\* max_color, which bounds the candidate colors 1..max_color+1, is the highest
\* color a vertex of the working coloring holds at that moment.
C12_MaxColorInUse ==
    (pc = "tabu_loop" /\ LoopCond) => max_color = HighestInUse

\* The working coloring with its last k moves (k <= 2) taken back: what it was
\* before the last k iterations that applied a move.
Before(k) ==
    LET cur == heap[current_coloring]
        last == moves[Len(moves)]
        one == [cur EXCEPT ![last.v] = last.old]
    IN IF k = 0 THEN cur
       ELSE IF k = 1 THEN one
       ELSE [one EXCEPT ![moves[Len(moves) - 1].v] = moves[Len(moves) - 1].old]

SelectableMove ==
    (pc \in TabuPcs /\ n >= 1) =>
        /\ \A v \in Range(n) : heap[current_coloring][v] <= max_color
        /\ \A m \in DOMAIN tabu : m[2] <= max_color
        /\ pc = "tabu_loop" =>
              \A v \in Range(n) : <<v, max_color + 1>> \in Selectable
        /\ pc # "tabu_exit"
        /\ Len(moves) = iteration
        /\ pc = "done" =>
              \/ iteration >= config.max_iterations
              \/ iterations_without_improve >= config.max_no_improve

\* C14 (a move always exists): on a graph with n >= 1 every iteration finds a
\* selectable move, the exit for want of a move is taken only when n = 0, and
\* with n >= 1 the search stops only at the iteration cap or the stagnation
\* cap.
C14_MoveExists ==
    /\ SelectableMove
    /\ pc = "tabu_exit" => n = 0
====
